---- MODULE Spec2Model ----
(***************************************************************************)
(* structhttp: a struct's methods served as HTTP endpoints.                *)
(*                                                                         *)
(* Handler(s, opts...) filters the methods of s with allowedMethod into    *)
(* the handler's method table; ServeHTTP walks the table, asks the         *)
(* MatcherFunc about each method, binds the arguments of the first method  *)
(* that matches, calls it and hands the results to writeResponse.          *)
(*                                                                         *)
(* Strings are TLA+ strings; a JSON text is kept as its sequence of        *)
(* tokens so that decoding and encoding are computed token by token.       *)
(***************************************************************************)
EXTENDS Integers, Sequences, FiniteSets, TLC

VARIABLES
    structValue,   \* structHandler.structValue: the target object (its fields)
    methods,       \* structHandler.methods: the table of exposed methods
    matcher,       \* structHandler.matcher
    reqs           \* one record per request being served (a ServeHTTP call)

vars == <<structValue, methods, matcher, reqs>>

----------------------------------------------------------------------------
(* Bounds *)

\* the largest number of values the caller-supplied matcher returns
MaxMatcherArgs == 2

----------------------------------------------------------------------------
(* net/http status codes *)

StatusOK == 200
StatusNoContent == 204
StatusBadRequest == 400
StatusNotFound == 404
StatusInternalServerError == 500

----------------------------------------------------------------------------
(* Values.  A Go value is [kind, num, toks]: kind names its dynamic type,  *)
(* num and toks carry its content.                                         *)

Val(k, n, t) == [kind |-> k, num |-> n, toks |-> t]

NilValue == Val("nil", 0, <<>>)                 \* nil interface value
NilPtr == Val("nilptr", 0, <<>>)                \* a nil pointer to testArgs
BytesFoo == Val("bytes", 0, <<"foo">>)          \* []byte("foo")
MapFooBar == Val("map", 0, <<"foo", "bar">>)    \* map[string]string{"foo":"bar"}
StringHi == Val("string", 0, <<"hi">>)          \* "hi"
ChanValue == Val("chan", 0, <<>>)               \* a channel: json cannot encode it
TestArgs(id, name) == Val("testArgs", id, <<name>>)   \* &testArgs{ID, Name}
\* r.Context() and r itself: values that tell the request they come from
CtxValue(r) == Val("ctx", 0, <<r.method, r.path>> \o r.body)
ReqValue(r) == Val("req", 0, <<r.method, r.path>> \o r.body)

\* the values the app's result field takes
ResultValues == {NilValue, BytesFoo, MapFooBar, StringHi, ChanValue}

(* Errors.  An error is its Error() text and its Unwrap chain: chain[i] is *)
(* the status code of the i-th error of the chain when that error is an    *)
(* HTTPStatusCoder, and 0 when it is not.  NoError is the nil error.       *)

Err(text, chain) == [text |-> text, chain |-> chain]

NoError == Err("", <<>>)

\* errors.New(text)
ErrorsNew(text) == Err(text, <<0>>)

\* fmt.Errorf(prefix + "%w", err)
ErrorfWrap(prefix, err) == Err(prefix \o err.text, <<0>> \o err.chain)

\* NewError(statusCode, err); its Error() is that of err
NewError(statusCode, err) == Err(err.text, <<statusCode>> \o err.chain)

\* the values the app's err field takes
AppErrors ==
    { NoError,
      ErrorsNew("test error"),
      NewError(StatusBadRequest, ErrorsNew("invalid request")),
      ErrorfWrap("wrapped: ", NewError(418, ErrorsNew("teapot"))) }

----------------------------------------------------------------------------
(* Joining tokens into text *)

RECURSIVE Concat(_)
Concat(toks) ==
    IF toks = <<>> THEN "" ELSE Head(toks) \o Concat(Tail(toks))

Quote(s) == "\"" \o s \o "\""

----------------------------------------------------------------------------
(* encoding/json, as far as the handler uses it.                           *)
(* A JSON text is a sequence of tokens: "{", "}", ":", ",", null, number   *)
(* tokens and quoted string tokens.                                        *)

StringLits == {"ID", "Name", "id", "foo", "bar"}
NumberToks == {"1", "2"}

IsStringTok(t) == \E s \in StringLits : t = Quote(s)
Unquote(t) == CHOOSE s \in StringLits : t = Quote(s)
IsNumberTok(t) == t \in NumberToks
\* strconv.ParseInt on a number token
ParseInt(t) == CHOOSE n \in 0..9 : ToString(n) = t
IsScalarTok(t) == IsStringTok(t) \/ IsNumberTok(t) \/ t = "null"

\* the scanner's name for the kind of a scalar token (UnmarshalTypeError.Value)
TokKind(t) == IF IsStringTok(t) THEN "string" ELSE "number"

\* strings.EqualFold against the field names of testArgs
FoldField(key) ==
    CASE key \in {"ID", "id"} -> "ID"
      [] key \in {"Name"}     -> "Name"
      [] OTHER                -> ""

(* The scanner: the number of tokens of the first complete JSON value of   *)
(* toks, 0 when the text ends inside the value (or before it), -1 on a    *)
(* token that cannot stand where it is.  st is what the scanner expects    *)
(* at token i.                                                             *)
RECURSIVE Scan(_, _, _)
Scan(toks, i, st) ==
    IF i > Len(toks) THEN 0
    ELSE LET t == toks[i] IN
      CASE st = "value" ->
             IF IsScalarTok(t) THEN i
             ELSE IF t = "{" THEN Scan(toks, i + 1, "keyOrEnd")
             ELSE -1
        [] st = "keyOrEnd" ->
             IF t = "}" THEN i
             ELSE IF IsStringTok(t) THEN Scan(toks, i + 1, "colon")
             ELSE -1
        [] st = "key" ->
             IF IsStringTok(t) THEN Scan(toks, i + 1, "colon") ELSE -1
        [] st = "colon" ->
             IF t = ":" THEN Scan(toks, i + 1, "member") ELSE -1
        [] st = "member" ->
             IF IsScalarTok(t) THEN Scan(toks, i + 1, "commaOrEnd") ELSE -1
        [] st = "commaOrEnd" ->
             IF t = "}" THEN i
             ELSE IF t = "," THEN Scan(toks, i + 1, "key")
             ELSE -1

(* Storing the members of an object into a testArgs, first member at       *)
(* token i.  acc is [v, err]: the struct so far and the first type error.  *)
RECURSIVE StoreMembers(_, _, _, _)
StoreMembers(toks, i, last, acc) ==
    IF i + 2 > last THEN acc
    ELSE
      LET key == Unquote(toks[i])
          t   == toks[i + 2]
          f   == FoldField(key)
          bad == Err("json: cannot unmarshal " \o TokKind(t)
                       \o " into Go struct field testArgs." \o f
                       \o " of type " \o (IF f = "ID" THEN "int" ELSE "string"),
                     <<0>>)
          keepErr(a) == IF a.err = NoError THEN [a EXCEPT !.err = bad] ELSE a
          next ==
            CASE f = "" \/ t = "null" -> acc
              [] f = "ID" ->
                   IF IsNumberTok(t)
                   THEN [acc EXCEPT !.v = TestArgs(ParseInt(t), acc.v.toks[1])]
                   ELSE keepErr(acc)
              [] f = "Name" ->
                   IF IsStringTok(t)
                   THEN [acc EXCEPT !.v = TestArgs(acc.v.num, Unquote(t))]
                   ELSE keepErr(acc)
      IN StoreMembers(toks, i + 4, last, next)

(* json.NewDecoder(body).Decode(arg) with arg a **testArgs: [v, err].      *)
(* Tokens after the first value stay in the decoder's buffer.              *)
DecodeTestArgs(toks) ==
    LET n == Scan(toks, 1, "value") IN
    IF n = 0 THEN
        [v |-> NilPtr,
         err |-> IF toks = <<>> THEN ErrorsNew("EOF") ELSE ErrorsNew("unexpected EOF")]
    ELSE IF n = -1 THEN
        [v |-> NilPtr, err |-> ErrorsNew("invalid character")]
    ELSE IF toks[1] = "null" THEN
        [v |-> NilPtr, err |-> NoError]
    ELSE IF toks[1] # "{" THEN
        [v |-> TestArgs(0, ""),
         err |-> ErrorsNew("json: cannot unmarshal " \o TokKind(toks[1])
                             \o " into Go value of type structhttp.testArgs")]
    ELSE StoreMembers(toks, 2, n - 1, [v |-> TestArgs(0, ""), err |-> NoError])

\* base64.StdEncoding of the byte sequences of the model
Base64(data) == IF data = "foo" THEN "Zm9v" ELSE ""

(* json.Marshal(v): [text, ok].  A map's keys come sorted, a struct's      *)
(* fields in declaration order, a []byte as a base64 string.               *)
Marshal(v) ==
    CASE v.kind \in {"nil", "nilptr"} -> [ok |-> TRUE, text |-> "null"]
      [] v.kind = "string" -> [ok |-> TRUE, text |-> Quote(v.toks[1])]
      [] v.kind = "bytes" ->
           [ok |-> TRUE,
            text |-> IF v.toks = <<>> THEN "null" ELSE Quote(Base64(v.toks[1]))]
      [] v.kind = "map" ->
           [ok |-> TRUE,
            text |-> "{" \o Quote(v.toks[1]) \o ":" \o Quote(v.toks[2]) \o "}"]
      [] v.kind = "testArgs" ->
           [ok |-> TRUE,
            text |-> "{" \o Quote("ID") \o ":" \o ToString(v.num) \o ","
                       \o Quote("Name") \o ":" \o Quote(v.toks[1]) \o "}"]
      [] OTHER -> [ok |-> FALSE, text |-> ""]

(* Decoding into a string variable. *)
DecodeString(toks) ==
    LET n == Scan(toks, 1, "value")
        zero == Val("string", 0, <<"">>)
    IN
    IF n = 0 THEN
        [v |-> zero,
         err |-> IF toks = <<>> THEN ErrorsNew("EOF") ELSE ErrorsNew("unexpected EOF")]
    ELSE IF n = -1 THEN [v |-> zero, err |-> ErrorsNew("invalid character")]
    ELSE IF toks[1] = "null" THEN [v |-> zero, err |-> NoError]
    ELSE IF IsStringTok(toks[1]) THEN
        [v |-> Val("string", 0, <<Unquote(toks[1])>>), err |-> NoError]
    ELSE
        [v |-> zero,
         err |-> ErrorsNew("json: cannot unmarshal "
                             \o (IF toks[1] = "{" THEN "object" ELSE "number")
                             \o " into Go value of type string")]

\* Decode into a new variable of the parameter type argType
Decode(toks, argType) ==
    IF argType = "ptrTestArgs" THEN DecodeTestArgs(toks) ELSE DecodeString(toks)

----------------------------------------------------------------------------
(* The target object.  A method is [name, in, out, impl]: its parameter    *)
(* types after the receiver, its result types, and what its body does.     *)
(* Types: "ctx" context.Context, "req" *http.Request, "error", "any",      *)
(* "bytes" []byte, "ptrTestArgs" *testArgs, "int", "string".               *)

Method(name, in, out, impl) == [name |-> name, in |-> in, out |-> out, impl |-> impl]

(* reflect.Type.Method(i) lists the exported methods sorted by name.       *)
(* The app of the tests, with three more methods whose results             *)
(* allowedMethod refuses, one Get method that takes an identifier and one  *)
(* method that takes the request, the context and two values.              *)
TargetMethods ==
    << Method("Bytes", <<>>, <<"bytes", "error">>, "bytes"),
       Method("ErrorAndResult", <<>>, <<"any", "error">>, "fields"),
       Method("ErrorFirst", <<>>, <<"error", "any">>, "fields"),
       Method("GetItem", <<"string">>, <<"any", "error">>, "echo"),
       Method("GetThing", <<>>, <<"any", "error">>, "fields"),
       Method("Inputs", <<"ctx", "ptrTestArgs">>, <<"ptrTestArgs", "error">>, "echo"),
       Method("Mixed", <<"req", "int", "ctx", "string">>, <<"error">>, "fields"),
       Method("NoResult", <<>>, <<>>, "fields"),
       Method("OnlyError", <<>>, <<"error">>, "fields"),
       Method("OnlyResult", <<>>, <<"any">>, "fields"),
       Method("Pair", <<>>, <<"any", "any">>, "fields"),
       Method("TooManyArgs", <<"int", "int", "int">>, <<"error">>, "fields"),
       Method("Triple", <<>>, <<"any", "any", "error">>, "fields") >>

MethodNames == { TargetMethods[i].name : i \in 1..Len(TargetMethods) }

\* reflect.Type.Implements(errorType)
ImplementsError(typ) == typ = "error"

\* allowedMethod without the check of the last result of two
allowedMethodAnySecond(typ) ==
    LET out == Len(typ.out) IN
    IF out > 2 THEN FALSE ELSE TRUE

allowedMethod(typ) ==
    LET out == Len(typ.out) IN
    IF out > 2 THEN FALSE
    ELSE IF out = 0 THEN TRUE
    ELSE LET lastOut == typ.out[out] IN
         IF out > 1 /\ ~ImplementsError(lastOut) THEN FALSE
         ELSE TRUE

\* the loop of Handler: append the allowed methods in order
RECURSIVE AppendAllowed(_, _)
AppendAllowed(all, i) ==
    IF i > Len(all) THEN <<>>
    ELSE IF ~allowedMethod(all[i]) THEN AppendAllowed(all, i + 1)
    ELSE <<all[i]>> \o AppendAllowed(all, i + 1)

\* Handler(s, opts...): the structHandler [structValue, methods, matcher]
Handler(s, m) ==
    [structValue |-> s, methods |-> AppendAllowed(TargetMethods, 1), matcher |-> m]

----------------------------------------------------------------------------
(* Requests.  A request is [method, path, body, hint]: body is the token   *)
(* sequence of r.Body, hint stands for everything else of the request      *)
(* (headers, query) that only a caller-supplied matcher looks at.          *)

Request(m, p, b, h) == [method |-> m, path |-> p, body |-> b, hint |-> h]

\* what is left of a method name after "Get", with strings.ToLower of it
GetTails == {"Thing", "Item"}
ToLower(s) == IF s = "Thing" THEN "thing" ELSE IF s = "Item" THEN "item" ELSE s
\* the identifiers [a-zA-Z0-9_-]+ of the paths of the model
PathIds == {"1", "a-b"}

\* strings.HasPrefix(s, "Get") and s[3:]
HasPrefixGet(s) == \E t \in GetTails : s = "Get" \o t
SliceFrom3(s) == CHOOSE t \in GetTails : s = "Get" \o t

(* A match result is [args, matches, err, read]: the three results of a    *)
(* MatcherFunc, and whether the call read r.Body.                          *)
MatchResult(args, matches, err, read) ==
    [args |-> args, matches |-> matches, err |-> err, read |-> read]

NoMatch == MatchResult(<<>>, FALSE, NoError, FALSE)

\* decodeArg that returns the decoder's error without a status code
decodeArgPlainError(r, argType) ==
    LET dec == Decode(r.body, argType) IN
    IF dec.err # NoError
    THEN MatchResult(<<>>, TRUE,
                     ErrorfWrap("failed to decode request body: ", dec.err), TRUE)
    ELSE MatchResult(<<dec.v>>, TRUE, NoError, TRUE)

\* decodeArg that returns no value after decoding
decodeArgNoValue(r, argType) ==
    LET dec == Decode(r.body, argType) IN
    IF dec.err # NoError
    THEN MatchResult(<<>>, TRUE,
                     NewError(StatusBadRequest,
                              ErrorfWrap("failed to decode request body: ", dec.err)),
                     TRUE)
    ELSE MatchResult(<<>>, TRUE, NoError, TRUE)

(* The end of DefaultMatcherFunc: the request body is decoded into a new   *)
(* variable of the one argument type; a failure is a match with a 400.     *)
decodeArg(r, argType) ==
    LET dec == Decode(r.body, argType) IN
    IF dec.err # NoError
    THEN MatchResult(<<>>, TRUE,
                     NewError(StatusBadRequest,
                              ErrorfWrap("failed to decode request body: ", dec.err)),
                     TRUE)
    ELSE MatchResult(<<dec.v>>, TRUE, NoError, TRUE)

\* DefaultMatcherFunc without the check for more than one argument
DefaultMatcherFuncFirstArg(r, methodName, methodArgs) ==
    IF r.method # "POST" \/ (r.path # "/" \o methodName /\ r.path # methodName)
    THEN NoMatch
    ELSE IF Len(methodArgs) = 0 THEN MatchResult(<<>>, TRUE, NoError, FALSE)
    ELSE decodeArg(r, methodArgs[1])

\* DefaultMatcherFunc with && for || between the method and the path tests
DefaultMatcherFuncAndPath(r, methodName, methodArgs) ==
    IF r.method # "POST" /\ (r.path # "/" \o methodName /\ r.path # methodName)
    THEN NoMatch
    ELSE IF Len(methodArgs) = 0 THEN MatchResult(<<>>, TRUE, NoError, FALSE)
    ELSE IF Len(methodArgs) > 1 THEN NoMatch
    ELSE decodeArg(r, methodArgs[1])

\* DefaultMatcherFunc that wants the leading slash
DefaultMatcherFuncSlashOnly(r, methodName, methodArgs) ==
    IF r.method # "POST" \/ r.path # "/" \o methodName
    THEN NoMatch
    ELSE IF Len(methodArgs) = 0 THEN MatchResult(<<>>, TRUE, NoError, FALSE)
    ELSE IF Len(methodArgs) > 1 THEN NoMatch
    ELSE decodeArg(r, methodArgs[1])

\* DefaultMatcherFunc decides on the method and the path
DefaultMatcherFunc(r, methodName, methodArgs) ==
    IF r.method # "POST" \/ (r.path # "/" \o methodName /\ r.path # methodName)
    THEN NoMatch
    ELSE IF Len(methodArgs) = 0 THEN MatchResult(<<>>, TRUE, NoError, FALSE)
    ELSE IF Len(methodArgs) > 1 THEN NoMatch
    ELSE decodeArg(r, methodArgs[1])

\* the matcherFunc of TestHandlerCustomMatcher
testMatcherFunc(r, methodName, methodArgs) ==
    IF HasPrefixGet(methodName) THEN
        IF r.method # "GET" THEN NoMatch
        ELSE IF Len(methodArgs) = 0 THEN MatchResult(<<>>, TRUE, NoError, FALSE)
        ELSE IF Len(methodArgs) > 1 THEN NoMatch
        ELSE LET prefix == "/" \o ToLower(SliceFrom3(methodName)) \o "/" IN
             IF \E id \in PathIds : r.path = prefix \o id
             THEN LET id == CHOOSE id \in PathIds : r.path = prefix \o id
                  IN MatchResult(<<Val("string", 0, <<id>>)>>, TRUE, NoError, FALSE)
             ELSE NoMatch
    ELSE DefaultMatcherFunc(r, methodName, methodArgs)

\* a value of the parameter type typ, marked with its position i
ValueOfType(typ, i) ==
    CASE typ = "ptrTestArgs" -> TestArgs(i, "foo")
      [] typ = "string"      -> Val("string", i, <<"id">>)
      [] OTHER               -> Val("int", i, <<>>)

(* A matcher given with WithMatcherFunc that does what the request's hint  *)
(* says: hint.names are the methods it matches, hint.err the error it      *)
(* returns with the match, hint.n the number of values it returns: one of  *)
(* each parameter type in order, and ints beyond the parameters.           *)
customMatcherFunc(r, methodName, methodArgs) ==
    IF methodName \notin r.hint.names THEN NoMatch
    ELSE IF r.hint.err # NoError THEN MatchResult(<<>>, TRUE, r.hint.err, FALSE)
    ELSE MatchResult(
            [i \in 1..r.hint.n |->
                ValueOfType(IF i <= Len(methodArgs) THEN methodArgs[i] ELSE "int", i)],
            TRUE, NoError, FALSE)

Matchers == {"default", "test", "custom"}

\* sh.matcher(r, name, argTypes...)
CallMatcher(m, r, methodName, methodArgs) ==
    CASE m = "default" -> DefaultMatcherFunc(r, methodName, methodArgs)
      [] m = "test"    -> testMatcherFunc(r, methodName, methodArgs)
      [] OTHER         -> customMatcherFunc(r, methodName, methodArgs)

----------------------------------------------------------------------------
(* The response.  [status, ctype, body, panic]: status 0 until a header is *)
(* written; panic is the text of the panic that ended ServeHTTP, if any.   *)

Response(status, ctype, body) ==
    [status |-> status, ctype |-> ctype, body |-> body, panic |-> ""]

NoResponse == Response(0, "", "")
Panicked(text) == [status |-> 0, ctype |-> "", body |-> "", panic |-> text]

\* http.Error(w, error, code)
HttpError(error, code) ==
    Response(code, "text/plain; charset=utf-8", error \o "\n")

\* http.NotFound(w, r)
HttpNotFound == HttpError("404 page not found", StatusNotFound)

(* A reflect.Value among the results: its static type, whether that type   *)
(* implements error, and the value: e when it does, v when it does not.    *)
Out(typ, v, e) == [typ |-> typ, isErr |-> ImplementsError(typ), v |-> v, e |-> e]

\* reflect.ValueOf(err) of a non-nil error: a value of the error's own type
ValueOfErr(err) == [typ |-> "*Error", isErr |-> TRUE, v |-> NilValue, e |-> err]

\* errors.As(err, &statusCoder): the first status code along the chain, or 0
RECURSIVE ErrorsAs(_)
ErrorsAs(chain) ==
    IF chain = <<>> THEN 0
    ELSE IF Head(chain) # 0 THEN Head(chain)
    ELSE ErrorsAs(Tail(chain))

\* json.NewEncoder(w).Encode(v): Marshal and a newline, written in one Write
Encode(v) ==
    LET m == Marshal(v) IN
    IF ~m.ok THEN Panicked("json: unsupported type")
    ELSE Response(StatusOK, "", m.text \o "\n")

\* writeError that does not look for an HTTPStatusCoder
writeErrorAlways500(e) == HttpError(e.text, StatusInternalServerError)

\* writeResponse on a non-nil error: the status of the error, its text
writeError(e) ==
    LET coded == ErrorsAs(e.chain)
        code == IF coded # 0 THEN coded ELSE StatusInternalServerError
    IN HttpError(e.text, code)

\* writeResult without the special case for []byte
writeResultEncodeAll(v) == Encode(v)

\* the end of writeResponse: the first result, a []byte as it is
writeResult(v) ==
    IF v.kind = "bytes" THEN Response(StatusOK, "", Concat(v.toks))
    ELSE Encode(v)

\* writeResponse without the check that the nil error is the only result
writeResponseNilIsNoContent(out) ==
    IF Len(out) = 0 THEN Response(StatusNoContent, "", "")
    ELSE
      LET last == out[Len(out)] IN
      IF last.isErr /\ last.e # NoError THEN writeError(last.e)
      ELSE IF last.isErr THEN Response(StatusNoContent, "", "")
      ELSE writeResult(out[1].v)

writeResponse(out) ==
    IF Len(out) = 0 THEN Response(StatusNoContent, "", "")
    ELSE
      LET last == out[Len(out)] IN
      IF last.isErr /\ last.e # NoError THEN writeError(last.e)
      ELSE IF last.isErr /\ Len(out) = 1 THEN Response(StatusNoContent, "", "")
      ELSE writeResult(out[1].v)

----------------------------------------------------------------------------
(* ServeHTTP *)

IsExtra(typ) == typ \notin {"ctx", "req"}

\* argTypes: the parameter types that are neither ctxType nor reqType
ArgTypes(method) == SelectSeq(method.in, IsExtra)

\* Bind without the test for values left over after the last parameter
BindDropSurplus(method, i, args, r) ==
    LET extra == { j \in 1..Len(method.in) : IsExtra(method.in[j]) }
        before(j) == Cardinality({ l \in extra : l <= j })
    IN
    IF Len(args) < Cardinality(extra) THEN
        [methodArgs |-> <<>>,
         panic |-> "not enough arguments to " \o method.name \o " method"]
    ELSE
        [methodArgs |-> [j \in 1..Len(method.in) |->
              IF method.in[j] = "ctx" THEN CtxValue(r)
              ELSE IF method.in[j] = "req" THEN ReqValue(r)
              ELSE args[before(j)]],
         panic |-> ""]

\* Bind that takes the matcher's values from the end
BindFromEnd(method, i, args, r) ==
    LET extra == { j \in 1..Len(method.in) : IsExtra(method.in[j]) }
        before(j) == Cardinality({ l \in extra : l < j })
    IN
    IF Len(args) < Cardinality(extra) THEN
        [methodArgs |-> <<>>,
         panic |-> "not enough arguments to " \o method.name \o " method"]
    ELSE IF Len(args) > Cardinality(extra) THEN
        [methodArgs |-> <<>>,
         panic |-> "too many arguments to " \o method.name \o " method"]
    ELSE
        [methodArgs |-> [j \in 1..Len(method.in) |->
              IF method.in[j] = "ctx" THEN CtxValue(r)
              ELSE IF method.in[j] = "req" THEN ReqValue(r)
              ELSE args[Len(args) - before(j)]],
         panic |-> ""]

(* The binding loop: [methodArgs, panic].  i is the parameter, args what   *)
(* is left of the matcher's values, r the request.                         *)
RECURSIVE Bind(_, _, _, _)
Bind(method, i, args, r) ==
    IF i > Len(method.in) THEN
        IF Len(args) > 0
        THEN [methodArgs |-> <<>>,
              panic |-> "too many arguments to " \o method.name \o " method"]
        ELSE [methodArgs |-> <<>>, panic |-> ""]
    ELSE
      LET argType == method.in[i] IN
      IF ~IsExtra(argType) THEN
          LET rest == Bind(method, i + 1, args, r) IN
          [rest EXCEPT !.methodArgs =
              <<IF argType = "ctx" THEN CtxValue(r) ELSE ReqValue(r)>> \o @]
      ELSE IF Len(args) = 0 THEN
          [methodArgs |-> <<>>,
           panic |-> "not enough arguments to " \o method.name \o " method"]
      ELSE
          LET rest == Bind(method, i + 1, Tail(args), r) IN
          [rest EXCEPT !.methodArgs = <<Head(args)>> \o @]

\* whether reflect accepts the value v for a parameter of type typ
Assignable(v, typ) ==
    CASE typ = "ctx"         -> v.kind = "ctx"
      [] typ = "req"         -> v.kind = "req"
      [] typ = "ptrTestArgs" -> v.kind \in {"testArgs", "nilptr"}
      [] typ = "string"      -> v.kind = "string"
      [] typ = "int"         -> v.kind = "int"
      [] OTHER               -> v.kind # "nil"

(* method.Func.Call(methodArgs) on the receiver s: [out, panic].           *)
(* "fields" returns the receiver's result and err fields where the result  *)
(* types ask for them, "bytes" asserts result to be a []byte, "echo"       *)
(* returns its parameter and the err field.                                *)
Call(method, methodArgs, s) ==
    LET data == SelectSeq(methodArgs, LAMBDA v : v.kind \notin {"ctx", "req"}) IN
    IF \E i \in 1..Len(method.in) : ~Assignable(methodArgs[i], method.in[i])
    THEN [out |-> <<>>, panic |-> "reflect: Call using wrong type"]
    ELSE IF method.impl = "bytes" /\ s.result.kind # "bytes"
    THEN [out |-> <<>>, panic |-> "interface conversion"]
    ELSE
      [out |-> [i \in 1..Len(method.out) |->
                   IF ImplementsError(method.out[i])
                   THEN Out(method.out[i], NilValue, s.err)
                   ELSE Out(method.out[i],
                            IF method.impl = "echo" THEN data[1] ELSE s.result,
                            NoError)],
       panic |-> ""]

----------------------------------------------------------------------------
(* The requests of the model *)

NoHint == [names |-> {}, err |-> NoError, n |-> 0]

\* the errors a caller-supplied matcher returns with a match
MatcherErrors ==
    { ErrorsNew("bad header"),
      NewError(StatusBadRequest, ErrorsNew("bad query")) }

\* at most two methods matched by one hint
Hints ==
    { [names |-> ns, err |-> e, n |-> 0] :
          ns \in { x \in SUBSET MethodNames : Cardinality(x) \in {1, 2} },
          e \in MatcherErrors }
    \cup
    { [names |-> ns, err |-> NoError, n |-> k] :
          ns \in { x \in SUBSET MethodNames : Cardinality(x) \in {1, 2} },
          k \in 0..MaxMatcherArgs }
    \cup {NoHint}

Paths ==
    { "/" \o n : n \in MethodNames } \cup MethodNames
    \cup {"/", "/inputs", "/thing/1", "/item/1", "/item/a-b", "/item/"}

FullBody ==
    <<"{", Quote("ID"), ":", "1", ",", Quote("Name"), ":", Quote("foo"), "}">>

Bodies ==
    { <<>>,
      FullBody,
      <<"{", Quote("Name"), ":", Quote("foo"), ",", Quote("ID"), ":", "1", "}">>,
      <<"{", Quote("id"), ":", "2", "}">>,
      <<"{", Quote("bar"), ":", "2", ",", Quote("Name"), ":", "null", "}">>,
      <<"{", Quote("ID"), ":", Quote("foo"), "}">>,
      <<"{", Quote("ID"), ":", "1", ",">>,
      <<"{">>,
      <<"}">>,
      <<"null">>,
      <<"1">>,
      <<Quote("foo")>>,
      FullBody \o <<"}">> }

\* the paths whose method the default matcher decodes a body for
BodyPaths == {"/Inputs", "Inputs", "/GetItem"}

Requests(m) ==
    IF m = "custom"
    THEN { Request("POST", "/", <<>>, h) : h \in Hints }
    ELSE { Request(hm, p, <<>>, NoHint) : hm \in {"POST", "GET"}, p \in Paths }
         \cup { Request("POST", p, b, NoHint) : p \in BodyPaths, b \in Bodies }

----------------------------------------------------------------------------
(* State.  A slot of reqs is one call of ServeHTTP: [pc, r, i, consulted,  *)
(* called, out, reads, w].  i is the position of the range loop over       *)
(* sh.methods; consulted lists the method names the matcher was asked      *)
(* about, called the calls [name, args] made on the target, out the        *)
(* results of the call, reads counts the matcher calls that read r.Body,   *)
(* w is what was written.                                                  *)

Idle ==
    [pc |-> "idle", r |-> Request("", "", <<>>, NoHint), i |-> 0,
     consulted |-> <<>>, called |-> <<>>, out |-> <<>>, reads |-> 0,
     w |-> NoResponse]

Slots == DOMAIN reqs

\* the app values of the tests: &app{result, err}
StructValues == [result : ResultValues, err : AppErrors]

InitWith(n) ==
    \E s \in StructValues, m \in Matchers :
        LET sh == Handler(s, m) IN
        /\ structValue = sh.structValue
        /\ methods = sh.methods
        /\ matcher = sh.matcher
        /\ reqs = [k \in 1..n |-> Idle]

\* Spec serves one request at a time
Init == InitWith(1)

\* the server calls ServeHTTP(w, r)
Receive ==
    \E k \in Slots, r \in Requests(matcher) :
    /\ reqs[k].pc = "idle"
    /\ reqs' = [reqs EXCEPT ![k] = [Idle EXCEPT !.pc = "serving", !.r = r, !.i = 1]]
    /\ UNCHANGED <<structValue, methods, matcher>>

\* the slot q after sh.matcher was asked about method and answered mr
Asked(q, method, mr) ==
    [q EXCEPT !.consulted = Append(@, method.name),
              !.reads = @ + (IF mr.read THEN 1 ELSE 0)]

(* The rest of the loop body after a match without error: the arguments    *)
(* are bound, the method is called on s and its results are written.       *)
Invoke(q, method, args, s) ==
    LET bound == Bind(method, 1, args, q.r)
        res == Call(method, bound.methodArgs, s)
        call == [name |-> method.name, args |-> bound.methodArgs]
    IN
    IF bound.panic # "" THEN [q EXCEPT !.pc = "done", !.w = Panicked(bound.panic)]
    ELSE IF res.panic # "" THEN
        [q EXCEPT !.pc = "done", !.w = Panicked(res.panic), !.called = Append(@, call)]
    ELSE
        [q EXCEPT !.pc = "done", !.w = writeResponse(res.out),
                  !.called = Append(@, call), !.out = res.out]

\* Iteration that goes on with the loop after writing the matcher's error
IterationNoReturn(q, sh) ==
    LET method == sh.methods[q.i]
        mr == CallMatcher(sh.matcher, q.r, method.name, ArgTypes(method))
        asked == Asked(q, method, mr)
    IN
    IF ~mr.matches THEN [asked EXCEPT !.i = q.i + 1]
    ELSE IF mr.err # NoError THEN
        [asked EXCEPT !.i = q.i + 1, !.w = writeResponse(<<ValueOfErr(mr.err)>>)]
    ELSE Invoke(asked, method, mr.args, sh.structValue)

\* Iteration that does not look at the matcher's error
IterationIgnoreErr(q, sh) ==
    LET method == sh.methods[q.i]
        mr == CallMatcher(sh.matcher, q.r, method.name, ArgTypes(method))
        asked == Asked(q, method, mr)
    IN
    IF ~mr.matches THEN [asked EXCEPT !.i = q.i + 1]
    ELSE Invoke(asked, method, mr.args, sh.structValue)

(* One iteration of the range loop of ServeHTTP on the handler sh for the  *)
(* slot q: the matcher is asked about sh.methods[q.i]; without a match     *)
(* the loop goes on, with a match the request ends here: the matcher's     *)
(* error is written, or the method is invoked.                             *)
Iteration(q, sh) ==
    LET method == sh.methods[q.i]
        argTypes == ArgTypes(method)
        mr == CallMatcher(sh.matcher, q.r, method.name, argTypes)
        asked == Asked(q, method, mr)
    IN
    IF ~mr.matches THEN [asked EXCEPT !.i = q.i + 1]
    ELSE IF mr.err # NoError THEN
        [asked EXCEPT !.pc = "done", !.w = writeResponse(<<ValueOfErr(mr.err)>>)]
    ELSE Invoke(asked, method, mr.args, sh.structValue)

\* Iterate with the position of the range loop kept in one place for all calls
IterateSharedPosition ==
    \E k \in Slots :
    /\ reqs[k].pc = "serving"
    /\ reqs[k].i <= Len(methods)
    /\ reqs' = [l \in Slots |->
          IF l = k
          THEN Iteration(reqs[k], [structValue |-> structValue, methods |-> methods,
                                   matcher |-> matcher])
          ELSE IF reqs[l].pc = "serving" THEN [reqs[l] EXCEPT !.i = @ + 1]
          ELSE reqs[l]]
    /\ UNCHANGED <<structValue, methods, matcher>>

Iterate ==
    \E k \in Slots :
    /\ reqs[k].pc = "serving"
    /\ reqs[k].i <= Len(methods)
    /\ reqs' = [reqs EXCEPT ![k] =
          Iteration(reqs[k], [structValue |-> structValue, methods |-> methods,
                              matcher |-> matcher])]
    /\ UNCHANGED <<structValue, methods, matcher>>

\* the loop is over without a match: http.NotFound(w, r)
NotFound ==
    \E k \in Slots :
    LET q == reqs[k] IN
    /\ q.pc = "serving"
    /\ q.i > Len(methods)
    /\ reqs' = [reqs EXCEPT ![k] = [q EXCEPT !.pc = "done", !.w = HttpNotFound]]
    /\ UNCHANGED <<structValue, methods, matcher>>

\* ServeHTTP has returned and the response is sent; the slot takes a new request
Finish ==
    \E k \in Slots :
    /\ reqs[k].pc = "done"
    /\ reqs' = [reqs EXCEPT ![k] = Idle]
    /\ UNCHANGED <<structValue, methods, matcher>>

Next ==
    \/ Receive
    \/ Iterate
    \/ NotFound
    \/ Finish

Spec == Init /\ [][Next]_vars

----------------------------------------------------------------------------
(* Concurrent requests.  net/http calls ServeHTTP of the one handler from  *)
(* a goroutine per connection; a step of a call is one iteration of its    *)
(* range loop, and the steps of the calls interleave in any order.         *)

\* the calls of ServeHTTP in flight at once
MaxInFlight == 2

ConcStructValues ==
    [result : {BytesFoo, MapFooBar}, err : {NoError, ErrorsNew("test error")}]

\* the requests that arrive while others are being served
ConcRequests(m) ==
    IF m = "custom"
    THEN { Request("POST", "/", <<>>, h) :
             h \in { [names |-> {"NoResult", "OnlyError"}, err |-> NoError, n |-> 0],
                     [names |-> {"Inputs"}, err |-> NoError, n |-> 1],
                     [names |-> {"GetItem"}, err |-> ErrorsNew("bad header"), n |-> 0],
                     NoHint } }
    ELSE { Request("POST", "/Inputs", FullBody, NoHint),
           Request("POST", "/OnlyError", <<>>, NoHint),
           Request("POST", "OnlyResult", <<>>, NoHint),
           Request("GET", "/item/1", <<>>, NoHint) }

InitConc ==
    /\ InitWith(MaxInFlight)
    /\ \E s \in ConcStructValues : structValue = s

ReceiveConc ==
    \E k \in Slots, r \in ConcRequests(matcher) :
    /\ reqs[k].pc = "idle"
    /\ reqs' = [reqs EXCEPT ![k] = [Idle EXCEPT !.pc = "serving", !.r = r, !.i = 1]]
    /\ UNCHANGED <<structValue, methods, matcher>>

NextConc ==
    \/ ReceiveConc
    \/ Iterate
    \/ NotFound
    \/ Finish

SpecConc == InitConc /\ [][NextConc]_vars

----------------------------------------------------------------------------
(* Properties *)

\* what the handler's matcher answers for the request of q about methods[j]
Answer(q, j) == CallMatcher(matcher, q.r, methods[j].name, ArgTypes(methods[j]))

\* the positions of the table whose method matches the request of q
Matching(q) == { j \in 1..Len(methods) : Answer(q, j).matches }

FirstMatching(q) == CHOOSE j \in Matching(q) : \A l \in Matching(q) : j <= l

InTable(name) == \E j \in 1..Len(methods) : methods[j].name = name

\* more than 2 results, or 2 results whose second is not an error
Refused(m) == Len(m.out) > 2 \/ (Len(m.out) = 2 /\ m.out[2] # "error")

(* C1: a method with more than 2 results, or with 2 results whose second   *)
(* is not an error, is not in the method table, the matcher is never asked *)
(* about it and it is never called; every other method of the target (no   *)
(* result, one result of any type, a value and an error) is in the table.  *)
C1_RefusedMethodsHaveNoRoute ==
    \A i \in 1..Len(TargetMethods) :
        LET m == TargetMethods[i] IN
        IF Refused(m)
        THEN /\ ~InTable(m.name)
             /\ \A k \in Slots :
                   /\ \A j \in DOMAIN reqs[k].consulted : reqs[k].consulted[j] # m.name
                   /\ \A j \in DOMAIN reqs[k].called : reqs[k].called[j].name # m.name
        ELSE \E j \in 1..Len(methods) : methods[j] = m

\* a request that a caller-supplied matcher would route to Triple ends in 404
C1_Witness ==
    \E k \in Slots :
        /\ reqs[k].pc = "done"
        /\ matcher = "custom"
        /\ reqs[k].r.hint.names = {"Triple"}
        /\ reqs[k].r.hint.err = NoError
        /\ reqs[k].w.status = StatusNotFound

(* C2: a request that the matcher matches with no method of the table is   *)
(* answered 404 Not Found and no method is called; under the default       *)
(* matcher that holds of a POST to /<Name> of a method with more than one  *)
(* application-data parameter.                                             *)
C2_NoMatchIsNotFound ==
    \A k \in Slots :
        LET q == reqs[k] IN
        q.pc = "done" =>
          /\ Matching(q) = {} => (q.w = HttpNotFound /\ q.called = <<>>)
          /\ \A j \in 1..Len(methods) :
                ( /\ matcher = "default"
                  /\ q.r.method = "POST"
                  /\ q.r.path = "/" \o methods[j].name
                  /\ Len(ArgTypes(methods[j])) > 1 )
                => (q.w.status = StatusNotFound /\ q.called = <<>>)

C2_Witness ==
    \E k \in Slots :
        /\ reqs[k].pc = "done"
        /\ matcher = "default"
        /\ reqs[k].r.method = "POST"
        /\ reqs[k].r.path = "/TooManyArgs"
        /\ reqs[k].w.status = StatusNotFound
        /\ reqs[k].called = <<>>

(* C3: the matcher is asked about the methods of the table one at a time   *)
(* in table order and not after the first match: what was asked is a       *)
(* prefix of the table, nothing before the last asked matched, a finished  *)
(* request with a matching method stopped at the first of them, at most    *)
(* one method is called and it is that first one.                          *)
C3_FirstMatchInTableOrder ==
    \A k \in Slots :
        LET q == reqs[k]
            n == Len(q.consulted)
        IN
        /\ n <= Len(methods)
        /\ \A j \in 1..n : q.consulted[j] = methods[j].name
        /\ \A j \in 1..n : j < n => ~Answer(q, j).matches
        /\ q.pc = "serving" => (q.i = n + 1 /\ Matching(q) \cap (1..n) = {})
        /\ Len(q.called) <= 1
        /\ (q.pc = "done" /\ Matching(q) # {}) =>
              /\ n = FirstMatching(q)
              /\ q.called # <<>> => q.called[1].name = methods[FirstMatching(q)].name
        /\ (q.pc = "done" /\ Matching(q) = {}) => n = Len(methods)

\* two methods match and the earlier one of the table was called
C3_Witness ==
    \E k \in Slots :
        /\ reqs[k].pc = "done"
        /\ Cardinality(Matching(reqs[k])) = 2
        /\ reqs[k].called # <<>>
        /\ reqs[k].called[1].name = "NoResult"
        /\ reqs[k].r.hint.names = {"NoResult", "OnlyError"}

(* C4: when the matcher answers a match together with an error, no method  *)
(* is called, the matcher is not asked about a later method, and the       *)
(* response is the one writeResponse writes for a method that returns      *)
(* that error alone: the status the error carries, or 500.                 *)
C4_MatcherErrorIsWritten ==
    \A k \in Slots :
        LET q == reqs[k] IN
        (q.pc = "done" /\ Matching(q) # {}
            /\ Answer(q, FirstMatching(q)).err # NoError) =>
          LET err == Answer(q, FirstMatching(q)).err IN
          /\ q.called = <<>>
          /\ Len(q.consulted) = FirstMatching(q)
          /\ q.w = writeResponse(<<Out("error", NilValue, err)>>)
          /\ q.w.status =
                IF \A c \in DOMAIN err.chain : err.chain[c] = 0
                THEN StatusInternalServerError
                ELSE err.chain[CHOOSE c \in DOMAIN err.chain :
                        err.chain[c] # 0 /\ \A d \in 1..(c - 1) : err.chain[d] = 0]

\* a caller-supplied matcher matched OnlyResult with a plain error: 500
C4_Witness ==
    \E k \in Slots :
        /\ reqs[k].pc = "done"
        /\ matcher = "custom"
        /\ reqs[k].r.hint.names = {"OnlyResult"}
        /\ reqs[k].r.hint.err = ErrorsNew("bad header")
        /\ reqs[k].w.status = StatusInternalServerError
        /\ reqs[k].called = <<>>

\* the condition of the default matcher, stated on the request and the method
DefaultCondition(r, m) ==
    /\ r.method = "POST"
    /\ r.path \in {"/" \o m.name, m.name}
    /\ Len(ArgTypes(m)) <= 1

(* C5: the default matcher matches exactly when the method is POST, the    *)
(* path is "/"+methodName or methodName, and the method has at most one    *)
(* extra parameter: for every request being served and every method of     *)
(* the target, and in what the handler did: the methods it passed over do  *)
(* not meet the condition, the one it stopped at does.                     *)
C5_DefaultMatcherCondition ==
    \A k \in Slots :
        LET q == reqs[k] IN
        (q.pc # "idle" /\ matcher = "default") =>
          /\ \A j \in 1..Len(TargetMethods) :
                DefaultMatcherFunc(q.r, TargetMethods[j].name,
                                   ArgTypes(TargetMethods[j])).matches
                <=> DefaultCondition(q.r, TargetMethods[j])
          /\ \A j \in 1..(q.i - 1) : ~DefaultCondition(q.r, methods[j])
          /\ (q.pc = "done" /\ q.i <= Len(methods)) => DefaultCondition(q.r, methods[q.i])
          /\ (q.pc = "done" /\ q.i > Len(methods)) => q.w = HttpNotFound

\* the path without the leading slash reached Inputs
C5_Witness ==
    \E k \in Slots :
        /\ reqs[k].pc = "done"
        /\ matcher = "default"
        /\ reqs[k].r.path = "Inputs"
        /\ reqs[k].called # <<>>
        /\ reqs[k].called[1].name = "Inputs"

\* the text of an error is in the body, as plain text or in an "error" field
CarriesText(body, text) ==
    \E pre \in {"", "{\"error\":\""}, post \in {"\n", "\"}\n"} :
        body = pre \o text \o post

(* C6: under the default matcher a POST to /<Name> of a method with        *)
(* exactly one application-data parameter, with a body that is empty or    *)
(* does not decode into the parameter's type, is answered 400 with the     *)
(* text "failed to decode request body: ..." in the body, and the method   *)
(* is not called.                                                          *)
C6_DecodeFailureIsBadRequest ==
    \A k \in Slots :
        LET q == reqs[k] IN
        \A j \in 1..Len(methods) :
            ( /\ q.pc = "done"
              /\ matcher = "default"
              /\ q.r.method = "POST"
              /\ q.r.path = "/" \o methods[j].name
              /\ Len(ArgTypes(methods[j])) = 1
              /\ Decode(q.r.body, ArgTypes(methods[j])[1]).err # NoError )
            => /\ q.w.status = StatusBadRequest
               /\ CarriesText(q.w.body,
                     "failed to decode request body: "
                        \o Decode(q.r.body, ArgTypes(methods[j])[1]).err.text)
               /\ q.called = <<>>

\* the empty body of the test: 400 and "failed to decode request body: EOF"
C6_Witness ==
    \E k \in Slots :
        /\ reqs[k].pc = "done"
        /\ matcher = "default"
        /\ reqs[k].r.path = "/Inputs"
        /\ reqs[k].r.body = <<>>
        /\ reqs[k].w.status = StatusBadRequest
        /\ CarriesText(reqs[k].w.body, "failed to decode request body: EOF")

\* the request of q ended with a call of a method that returned
Returned(q) == q.pc = "done" /\ q.called # <<>> /\ q.w.panic = ""

(* C7: after a call, the response is 204 No Content exactly when the       *)
(* method has no result, or has one result of type error that is nil; the  *)
(* body of a 204 is empty.                                                 *)
C7_NoContentExactly ==
    \A k \in Slots :
        LET q == reqs[k] IN
        Returned(q) =>
          /\ q.w.status = StatusNoContent
               <=> \/ Len(q.out) = 0
                   \/ Len(q.out) = 1 /\ q.out[1].isErr /\ q.out[1].e = NoError
          /\ q.w.status = StatusNoContent => q.w.body = ""

\* OnlyError returned nil
C7_Witness ==
    \E k \in Slots :
        /\ Returned(reqs[k])
        /\ reqs[k].called[1].name = "OnlyError"
        /\ reqs[k].out[1].e = NoError
        /\ reqs[k].w.status = StatusNoContent

\* the last result of the call of q is a non-nil error
ReturnedError(q) ==
    /\ Returned(q)
    /\ Len(q.out) >= 1
    /\ q.out[Len(q.out)].isErr
    /\ q.out[Len(q.out)].e # NoError

\* the first status code along the chain of e, 500 without one
ChainStatus(e) ==
    IF \A c \in DOMAIN e.chain : e.chain[c] = 0
    THEN StatusInternalServerError
    ELSE e.chain[CHOOSE c \in DOMAIN e.chain :
            e.chain[c] # 0 /\ \A d \in 1..(c - 1) : e.chain[d] = 0]

C9_ErrorBodyIsJSONObject ==
    \A k \in Slots :
        LET q == reqs[k] IN
        /\ (ReturnedError(q) /\ q.w.status >= 400) =>
              q.w.body = "{\"error\":" \o Quote(q.out[Len(q.out)].e.text) \o "}\n"
        /\ (q.pc = "done" /\ q.called = <<>> /\ Matching(q) # {}
               /\ Answer(q, FirstMatching(q)).err # NoError /\ q.w.status >= 400) =>
              q.w.body = "{\"error\":"
                           \o Quote(Answer(q, FirstMatching(q)).err.text) \o "}\n"

\* the JSON text of the values of the model, written out
Document(v) ==
    CASE v = MapFooBar -> "{\"foo\":\"bar\"}"
      [] v = StringHi -> "\"hi\""
      [] v.kind = "string" -> "\"" \o v.toks[1] \o "\""
      [] v.kind = "testArgs" ->
           "{\"ID\":" \o ToString(v.num) \o ",\"Name\":\"" \o v.toks[1] \o "\"}"
      [] OTHER -> "null"

\* the call of q returned a result and no error
ReturnedResult(q) ==
    /\ Returned(q)
    /\ \/ Len(q.out) = 1 /\ ~q.out[1].isErr
       \/ Len(q.out) = 2 /\ q.out[2].e = NoError

(* C10: when the called method returns a result and no error, the status   *)
(* is 200 and the body is the bytes of the result as they are when the     *)
(* result is a []byte, and else the JSON document of the result and a      *)
(* newline; Inputs, which returns its decoded parameter, answers the body  *)
(* {"ID":1,"Name":"foo"} with that same text.                              *)
C10_ResultBody ==
    \A k \in Slots :
        LET q == reqs[k] IN
        /\ ReturnedResult(q) =>
              /\ q.w.status = StatusOK
              /\ q.w.body = IF q.out[1].v.kind = "bytes"
                            THEN q.out[1].v.toks[1]
                            ELSE Document(q.out[1].v) \o "\n"
        /\ ( /\ q.pc = "done"
             /\ matcher = "default"
             /\ q.r.method = "POST"
             /\ q.r.path = "/Inputs"
             /\ q.r.body = FullBody
             /\ structValue.err = NoError )
           => /\ q.w.status = StatusOK
              /\ q.w.body = "{\"ID\":1,\"Name\":\"foo\"}\n"
              /\ q.w.body = Concat(q.r.body) \o "\n"

\* Bytes returned []byte("foo"): the body is foo
C10_Witness ==
    \E k \in Slots :
        /\ ReturnedResult(reqs[k])
        /\ reqs[k].called[1].name = "Bytes"
        /\ reqs[k].out[1].v = BytesFoo
        /\ reqs[k].w.status = StatusOK
        /\ reqs[k].w.body = "foo"

\* the request of q ended at a match without error whose values fit the method
CleanMatch(q) ==
    /\ q.pc = "done"
    /\ Matching(q) # {}
    /\ Answer(q, FirstMatching(q)).err = NoError
    /\ Len(Answer(q, FirstMatching(q)).args) = Len(ArgTypes(methods[FirstMatching(q)]))

\* the number of application-data parameters among the first i parameters
ExtraUpTo(m, i) == Cardinality({ j \in 1..i : m.in[j] \notin {"ctx", "req"} })

(* C11: on a match without error the matched method is called exactly      *)
(* once, with one argument per declared parameter in the declared order:   *)
(* a context parameter gets the context of the request, a request          *)
(* parameter the request, and the n-th application-data parameter the      *)
(* n-th value of the matcher; the matcher of the tests hands the           *)
(* identifier of the path GET /item/<id> to GetItem as its one argument.   *)
C11_ArgumentsInDeclaredOrder ==
    \A k \in Slots :
        LET q == reqs[k] IN
        /\ CleanMatch(q) =>
              LET m == methods[FirstMatching(q)]
                  vals == Answer(q, FirstMatching(q)).args
              IN
              /\ Len(q.called) = 1
              /\ q.called[1].name = m.name
              /\ Len(q.called[1].args) = Len(m.in)
              /\ \A i \in 1..Len(m.in) :
                    q.called[1].args[i] =
                       CASE m.in[i] = "ctx" -> Val("ctx", 0, <<q.r.method, q.r.path>> \o q.r.body)
                         [] m.in[i] = "req" -> Val("req", 0, <<q.r.method, q.r.path>> \o q.r.body)
                         [] OTHER -> vals[ExtraUpTo(m, i)]
        /\ \A id \in PathIds :
              (q.pc = "done" /\ matcher = "test" /\ q.r.method = "GET"
                 /\ q.r.path = "/item/" \o id)
              => /\ Len(q.called) = 1
                 /\ q.called[1].name = "GetItem"
                 /\ q.called[1].args = <<Val("string", 0, <<id>>)>>

\* Mixed(r, int, ctx, string) was called with the request, 1st value, context, 2nd value
C11_Witness ==
    \E k \in Slots :
        /\ CleanMatch(reqs[k])
        /\ Len(reqs[k].called) = 1
        /\ reqs[k].called[1].name = "Mixed"
        /\ reqs[k].called[1].args[1].kind = "req"
        /\ reqs[k].called[1].args[2] = Val("int", 1, <<>>)
        /\ reqs[k].called[1].args[3].kind = "ctx"
        /\ reqs[k].called[1].args[4] = Val("string", 2, <<"id">>)

\* the request of q ended at a match without error whose values do not fit
Mismatch(q) ==
    /\ q.pc = "done"
    /\ Matching(q) # {}
    /\ Answer(q, FirstMatching(q)).err = NoError
    /\ Len(Answer(q, FirstMatching(q)).args) # Len(ArgTypes(methods[FirstMatching(q)]))

(* C13: when the matcher matches without error and returns fewer values,   *)
(* or more values, than the method has application-data parameters,        *)
(* ServeHTTP panics: "not enough arguments" for fewer, "too many           *)
(* arguments" for more; the method is not called and nothing is written.   *)
C13_WrongCountPanics ==
    \A k \in Slots :
        LET q == reqs[k] IN
        Mismatch(q) =>
          LET m == methods[FirstMatching(q)]
              n == Len(Answer(q, FirstMatching(q)).args)
          IN
          /\ q.called = <<>>
          /\ q.w.status = 0
          /\ q.w.body = ""
          /\ n < Len(ArgTypes(m)) =>
                q.w.panic = "not enough arguments to " \o m.name \o " method"
          /\ n > Len(ArgTypes(m)) =>
                q.w.panic = "too many arguments to " \o m.name \o " method"

\* two values for the one application-data parameter of Inputs
C13_Witness ==
    \E k \in Slots :
        /\ Mismatch(reqs[k])
        /\ methods[FirstMatching(reqs[k])].name = "Inputs"
        /\ Len(Answer(reqs[k], FirstMatching(reqs[k])).args) = 2
        /\ reqs[k].w.panic = "too many arguments to Inputs method"
        /\ reqs[k].called = <<>>

\* the slot of a request r that ServeHTTP has just been called with
Started(r) == [Idle EXCEPT !.pc = "serving", !.r = r, !.i = 1]

\* the slot at the return of ServeHTTP, from the slot q, on the handler sh
RECURSIVE Serve(_, _)
Serve(q, sh) ==
    IF q.pc = "done" THEN q
    ELSE IF q.i > Len(sh.methods) THEN [q EXCEPT !.pc = "done", !.w = HttpNotFound]
    ELSE Serve(Iteration(q, sh), sh)

Reverse(seq) == [j \in 1..Len(seq) |-> seq[Len(seq) + 1 - j]]
Rotate(seq, d) == [j \in 1..Len(seq) |-> seq[((j - 1 + d) % Len(seq)) + 1]]

\* other orders of the table t: its rotations, and the reverse of each
Orders(t) ==
    { Rotate(t, d) : d \in 0..(Len(t) - 1) }
    \cup { Reverse(Rotate(t, d)) : d \in 0..(Len(t) - 1) }

(* C14: with the default matcher at most one method of the table matches   *)
(* a request, the body is read for at most one method, and the response    *)
(* and the call made are the same in whatever order the table is walked.   *)
C14_DefaultMatchIsUnique ==
    matcher = "default" =>
      \A k \in Slots :
        LET q == reqs[k] IN
        q.pc # "idle" =>
          /\ Cardinality(Matching(q)) <= 1
          /\ Cardinality({ j \in 1..Len(methods) : Answer(q, j).read }) <= 1
          /\ q.reads <= 1
          /\ q.pc = "done" =>
                \A t \in Orders(methods) :
                    LET other == Serve(Started(q.r),
                                       [structValue |-> structValue, methods |-> t,
                                        matcher |-> matcher])
                    IN other.w = q.w /\ other.called = q.called

\* a body was decoded for Inputs, which is neither first nor last in the table
C14_Witness ==
    /\ matcher = "default"
    /\ Len(methods) > 2
    /\ \E k \in Slots :
         /\ reqs[k].pc = "done"
         /\ reqs[k].reads = 1
         /\ reqs[k].r.body = FullBody
         /\ Len(reqs[k].called) = 1
         /\ reqs[k].called[1].name = "Inputs"
         /\ Reverse(methods) # methods

\* the texts of the two panics of the binding loop
BindPanics ==
    { "not enough arguments to " \o n \o " method" : n \in MethodNames }
    \cup { "too many arguments to " \o n \o " method" : n \in MethodNames }

(* C15: whenever the default matcher matches a method without error, it    *)
(* returns as many values as the method has application-data parameters,   *)
(* none or one; so with the default matcher ServeHTTP never ends in the    *)
(* "not enough arguments" or the "too many arguments" panic.               *)
C15_DefaultMatcherConforms ==
    matcher = "default" =>
      \A k \in Slots :
        LET q == reqs[k] IN
        q.pc # "idle" =>
          /\ \A j \in 1..Len(methods) :
                LET mr == DefaultMatcherFunc(q.r, methods[j].name, ArgTypes(methods[j]))
                IN (mr.matches /\ mr.err = NoError) =>
                      /\ Len(mr.args) = Len(ArgTypes(methods[j]))
                      /\ Len(mr.args) \in {0, 1}
          /\ q.w.panic \notin BindPanics

\* the default matcher decoded one value for the one parameter of Inputs
C15_Witness ==
    /\ matcher = "default"
    /\ \E k \in Slots :
         LET q == reqs[k] IN
         /\ q.pc = "done"
         /\ Matching(q) # {}
         /\ methods[FirstMatching(q)].name = "Inputs"
         /\ Answer(q, FirstMatching(q)).err = NoError
         /\ Len(Answer(q, FirstMatching(q)).args) = 1
         /\ Len(q.called) = 1
         /\ q.w.panic = ""

\* every finished call wrote and called what it does when served alone
AsAlone ==
    \A k \in Slots :
        LET q == reqs[k]
            alone == Serve(Started(q.r), Handler(structValue, matcher))
        IN q.pc = "done" =>
              /\ q.w = alone.w
              /\ q.called = alone.called
              /\ q.consulted = alone.consulted

(* C12: no step of a call of ServeHTTP changes the method table, the       *)
(* matcher or the target of the handler, and with several calls in flight, *)
(* their steps interleaved in any order, every call ends with the method   *)
(* call and the response it has when it is served alone.                   *)
C12_ConcurrentAsAlone ==
    /\ [](AsAlone)
    /\ [][UNCHANGED <<structValue, methods, matcher>>]_vars

\* one call has ended with a method call while another is inside its loop
C12_Witness ==
    \E k \in Slots, l \in Slots :
        /\ k # l
        /\ reqs[k].pc = "done"
        /\ Len(reqs[k].called) = 1
        /\ reqs[l].pc = "serving"
        /\ reqs[l].i > 1
        /\ reqs[l].r # reqs[k].r

====
